---- MODULE Spec2Model ----
(***************************************************************************)
(* cattree: a directory tree rendered as text, with each file's content,    *)
(* after the blacklist, extension, include, exclude, gitignore and --only   *)
(* filters.  The model follows src/cattree/cattree.py and                   *)
(* src/cattree/gitignore_parsing.py.                                        *)
(*                                                                          *)
(* A string is a sequence of one-character strings; a path is the sequence  *)
(* of its names below the traversal root (<<>> is the root itself); a       *)
(* regular expression is a sequence of alternatives, each a sequence of     *)
(* atoms (the parsed form of the pattern text Python's re compiles).        *)
(***************************************************************************)
EXTENDS Integers, Sequences, FiniteSets, TLC

\* Python's None where a pattern is expected, where _convert_gitignore_to_regex
\* returns one alternative, and where max_lines is expected
None == << <<[t |-> "None"]>> >>
NoRegex == <<[t |-> "None"]>>
NoLimit == -1

(***************************************************************************)
(* Strings                                                                  *)
(***************************************************************************)
RECURSIVE Concat(_)
Concat(ss) == IF ss = <<>> THEN <<>> ELSE Head(ss) \o Concat(Tail(ss))

RECURSIVE Join(_, _)
Join(ss, sep) ==
    IF ss = <<>> THEN <<>>
    ELSE IF Len(ss) = 1 THEN ss[1]
    ELSE ss[1] \o sep \o Join(Tail(ss), sep)

StartsWith(s, p) == Len(p) <= Len(s) /\ SubSeq(s, 1, Len(p)) = p
EndsWith(s, p) == Len(p) <= Len(s) /\ SubSeq(s, Len(s) - Len(p) + 1, Len(s)) = p

Reverse(s) == [i \in 1..Len(s) |-> s[Len(s) + 1 - i]]

IsSpace(c) == c \in {" ", "\n", "\t"}

RECURSIVE LStrip(_, _)
LStrip(s, cs) == IF s # <<>> /\ Head(s) \in cs THEN LStrip(Tail(s), cs) ELSE s

RStrip(s, cs) == Reverse(LStrip(Reverse(s), cs))

Strip(s) == RStrip(LStrip(s, {" ", "\n", "\t"}), {" ", "\n", "\t"})

\* str.lower() on the letters the model's names use
Lower(s) ==
    [i \in 1..Len(s) |->
        CASE s[i] = "A" -> "a"
          [] s[i] = "B" -> "b"
          [] s[i] = "S" -> "s"
          [] OTHER -> s[i]]

\* the code point of a character (Python compares strings by code point)
Ord(c) ==
    CASE c = "." -> 46 [] c = "/" -> 47
      [] c = "A" -> 65 [] c = "B" -> 66 [] c = "S" -> 83
      [] c = "_" -> 95
      [] c = "a" -> 97 [] c = "b" -> 98 [] c = "c" -> 99 [] c = "d" -> 100
      [] c = "e" -> 101 [] c = "g" -> 103 [] c = "h" -> 104 [] c = "i" -> 105
      [] c = "n" -> 110 [] c = "o" -> 111 [] c = "p" -> 112 [] c = "r" -> 114
      [] c = "s" -> 115 [] c = "t" -> 116 [] c = "x" -> 120 [] c = "y" -> 121
      [] OTHER -> 0

\* s < t for Python strings
RECURSIVE StrLess(_, _)
StrLess(s, t) ==
    IF t = <<>> THEN FALSE
    ELSE IF s = <<>> THEN TRUE
    ELSE IF Head(s) = Head(t) THEN StrLess(Tail(s), Tail(t))
    ELSE Ord(Head(s)) < Ord(Head(t))

(***************************************************************************)
(* Regular expressions: re.search and re.match on the parsed pattern        *)
(***************************************************************************)
Lit(c) == [t |-> "lit", c |-> c]
AnyChar == [t |-> "any"]               \* .
NotSlash == [t |-> "notslash"]         \* [^/]
AnyStar == [t |-> "anystar"]           \* .*
NotSlashStar == [t |-> "notslashstar"] \* [^/]*
Bol == [t |-> "bol"]                   \* ^
Eol == [t |-> "eol"]                   \* $
BolOrSlash == [t |-> "bolorslash"]     \* (^|/)
OptTail == [t |-> "opttail"]           \* (/.*)?

Lits(s) == [i \in 1..Len(s) |-> Lit(s[i])]

\* the atoms of alt from the k-th on match s from position i
RECURSIVE MatchAt(_, _, _, _)
MatchAt(alt, k, s, i) ==
    IF k > Len(alt) THEN TRUE
    ELSE LET a == alt[k]
             n == Len(s)
         IN CASE a.t = "lit" -> i <= n /\ s[i] = a.c /\ MatchAt(alt, k + 1, s, i + 1)
              [] a.t = "any" -> i <= n /\ s[i] # "\n" /\ MatchAt(alt, k + 1, s, i + 1)
              [] a.t = "notslash" -> i <= n /\ s[i] # "/" /\ MatchAt(alt, k + 1, s, i + 1)
              [] a.t = "anystar" ->
                    \E j \in i..(n + 1) :
                        /\ \A q \in i..(j - 1) : s[q] # "\n"
                        /\ MatchAt(alt, k + 1, s, j)
              [] a.t = "notslashstar" ->
                    \E j \in i..(n + 1) :
                        /\ \A q \in i..(j - 1) : s[q] # "/"
                        /\ MatchAt(alt, k + 1, s, j)
              [] a.t = "bol" -> i = 1 /\ MatchAt(alt, k + 1, s, i)
              [] a.t = "eol" ->
                    /\ i = n + 1 \/ (i = n /\ s[n] = "\n")
                    /\ MatchAt(alt, k + 1, s, i)
              [] a.t = "bolorslash" ->
                    \/ i = 1 /\ MatchAt(alt, k + 1, s, i)
                    \/ i <= n /\ s[i] = "/" /\ MatchAt(alt, k + 1, s, i + 1)
              [] a.t = "opttail" ->
                    \/ MatchAt(alt, k + 1, s, i)
                    \/ /\ i <= n /\ s[i] = "/"
                       /\ \E j \in (i + 1)..(n + 1) :
                            /\ \A q \in (i + 1)..(j - 1) : s[q] # "\n"
                            /\ MatchAt(alt, k + 1, s, j)

re_match(regex, s) == \E x \in 1..Len(regex) : MatchAt(regex[x], 1, s, 1)

re_search(regex, s) ==
    \E x \in 1..Len(regex) : \E i \in 1..(Len(s) + 1) : MatchAt(regex[x], 1, s, i)

(***************************************************************************)
(* cattree.py: the fixed pattern tables                                     *)
(***************************************************************************)
ALLOWED_PATTERNS ==
    << <<AnyStar, Lit("."), Lit("p"), Lit("y"), Eol>>,
       <<AnyStar, Lit("."), Lit("m"), Lit("d"), Eol>>,
       <<AnyStar, Lit("."), Lit("t"), Lit("x"), Lit("t"), Eol>>,
       <<AnyStar, Lit("."), Lit("y"), Lit("m"), Lit("l"), Eol>>,
       <<AnyStar, Lit("."), Lit("y"), Lit("a"), Lit("m"), Lit("l"), Eol>>,
       <<AnyStar, Lit("."), Lit("j"), Lit("s"), Lit("o"), Lit("n"), Eol>>,
       <<AnyStar, Lit("."), Lit("t"), Lit("o"), Lit("m"), Lit("l"), Eol>>,
       <<AnyStar, Lit("."), Lit("c"), Lit("p"), Lit("p"), Eol>>,
       <<AnyStar, Lit("."), Lit("h"), Eol>>,
       <<AnyStar, Lit("."), Lit("h"), Lit("p"), Lit("p"), Eol>>,
       <<AnyStar, Lit("."), Lit("c"), Eol>> >>

\* re.compile("|".join(ALLOWED_PATTERNS))
ALLOWED_REGEX == ALLOWED_PATTERNS

BLACKLISTED_PATTERNS ==
    << <<Bol, Lit(".")>>,
       Lits(<<"_", "_", "p", "y", "c", "a", "c", "h", "e", "_", "_">>) >>

BLACKLISTED_REGEX == BLACKLISTED_PATTERNS

(***************************************************************************)
(* pathlib on the modelled filesystem.  fs.kind maps every existing path    *)
(* to "dir", "file" or "broken" (a dangling symlink: listed by its parent,  *)
(* neither a file nor a directory, exists() is false).                      *)
(***************************************************************************)
Parent(p) == SubSeq(p, 1, Len(p) - 1)

IsPrefix(a, p) == Len(a) <= Len(p) /\ SubSeq(p, 1, Len(a)) = a

\* path.name: the last name, the root directory's own name for the root
PathName(rootName, p) == IF p = <<>> THEN rootName ELSE p[Len(p)]

\* str(path.relative_to(root_path)); the root relative to itself is "."
RelativePath(p) == IF p = <<>> THEN <<".">> ELSE Join(p, <<"/">>)

is_file(f, p) == p \in DOMAIN f.kind /\ f.kind[p] = "file"
is_dir(f, p) == p \in DOMAIN f.kind /\ f.kind[p] = "dir"
exists(f, p) == p \in DOMAIN f.kind /\ f.kind[p] # "broken"

\* the entries current_path.iterdir() lists, in no order
Children(f, p) == {q \in DOMAIN f.kind : q # <<>> /\ Parent(q) = p}

(***************************************************************************)
(* cattree.py: _matches_pattern.  A pattern that is None or the empty       *)
(* string (<<>>: no alternative) is falsy and switches its rule off.        *)
(***************************************************************************)
Truthy(pattern) == pattern # None /\ pattern # <<>>

_matches_pattern(f, rootName, path, include, exclude) ==
    LET name == PathName(rootName, path)
        relative_path == RelativePath(path)
    IN IF is_file(f, path) /\ ~re_match(ALLOWED_REGEX, name) THEN FALSE
       ELSE IF re_match(BLACKLISTED_REGEX, name) THEN FALSE
       ELSE IF Truthy(exclude)
               /\ (re_search(exclude, name) \/ re_search(exclude, relative_path))
            THEN FALSE
       ELSE IF Truthy(include)
               /\ ~(re_search(include, name) \/ re_search(include, relative_path))
            THEN FALSE
       ELSE TRUE

(***************************************************************************)
(* cattree.py: the sort of traverse_directory_dfs                           *)
(***************************************************************************)
\* key=lambda p: (p.is_file(), p.name.lower())
SortKey(f, p) == [file |-> is_file(f, p), name |-> Lower(p[Len(p)])]

\* tuple comparison: False < True, then the lowered names
KeyLess(k1, k2) ==
    IF k1.file # k2.file THEN k2.file ELSE StrLess(k1.name, k2.name)

\* x put behind every element whose key is not greater (sorted is stable)
RECURSIVE InsertStable(_, _, _)
InsertStable(f, srt, x) ==
    IF srt = <<>> THEN <<x>>
    ELSE IF KeyLess(SortKey(f, x), SortKey(f, Head(srt))) THEN <<x>> \o srt
    ELSE <<Head(srt)>> \o InsertStable(f, Tail(srt), x)

\* sorted(listing, key=...)
RECURSIVE Sorted(_, _)
Sorted(f, listing) ==
    IF listing = <<>> THEN <<>>
    ELSE InsertStable(f, Sorted(f, SubSeq(listing, 1, Len(listing) - 1)),
                      listing[Len(listing)])

\* every order in which the filesystem may list the set S
RECURSIVE Perms(_)
Perms(S) ==
    IF S = {} THEN {<<>>}
    ELSE UNION {{<<x>> \o q : q \in Perms(S \ {x})} : x \in S}

\* mutant of PushEntries: the entries are pushed without reversed()
PushEntries_Forward(stk, entries, depth) ==
    stk \o [i \in 1..Len(entries) |-> [path |-> entries[i], depth |-> depth + 1]]

\* for entry in reversed(entries): stack.append((entry, depth + 1))
PushEntries(stk, entries, depth) ==
    stk \o [i \in 1..Len(entries) |->
                [path |-> entries[Len(entries) + 1 - i], depth |-> depth + 1]]

(***************************************************************************)
(* cattree.py: format_file_content                                          *)
(***************************************************************************)
Ellipsis == <<".", ".", ".">>

Min(a, b) == IF a < b THEN a ELSE b

\* content = content[:max_lines]; if len(content) == max_lines: append "..."
Truncate(content, max_lines) ==
    IF max_lines = NoLimit THEN content
    ELSE LET cut == SubSeq(content, 1, Min(max_lines, Len(content)))
         IN IF Len(cut) = max_lines THEN Append(cut, Ellipsis) ELSE cut

\* re.sub(r"\s+", " ", line): every run of whitespace becomes one space
RECURSIVE CollapseSpace(_)
CollapseSpace(line) ==
    IF line = <<>> THEN <<>>
    ELSE IF IsSpace(Head(line))
         THEN <<" ">> \o CollapseSpace(LStrip(line, {" ", "\n", "\t"}))
         ELSE <<Head(line)>> \o CollapseSpace(Tail(line))

CompactLine(line) == Strip(CollapseSpace(line))

\* lines = [f"{path.relative_to(root_path)}:\n"]
ContentHeader(path) == RelativePath(path) \o <<":", "\n">>

\* mutant of format_file_content: a file that does not decode gives a block
\* that holds an error marker, and nothing is raised
format_file_content_Marker(f, path, max_lines, compact_code) ==
    [raised |-> FALSE, value |-> ContentHeader(path) \o <<"?">>]

\* the returned string, or the ValueError raised for a file that does not decode
format_file_content(f, path, max_lines, compact_code) ==
    IF ~is_file(f, path) \/ path \in f.undecodable
    THEN [raised |-> TRUE, value |-> "ValueError"]
    ELSE LET content == Truncate(f.content[path], max_lines)
             shown == IF compact_code
                      THEN [i \in 1..Len(content) |-> CompactLine(content[i])]
                      ELSE content
         IN [raised |-> FALSE, value |-> Concat(<<ContentHeader(path)>> \o shown)]

(***************************************************************************)
(* cattree.py: _is_path_allowed (paths resolve to themselves: no symlinked  *)
(* directories)                                                             *)
(***************************************************************************)
\* mutant of _is_path_allowed: the ancestors of a selected path are not kept
_is_path_allowed_NoAncestors(f, path, only_paths) ==
    \/ path \in only_paths
    \/ \E allowed \in only_paths : is_dir(f, allowed) /\ IsPrefix(allowed, path)

_is_path_allowed(f, path, only_paths) ==
    \/ path \in only_paths
    \/ \E allowed \in only_paths : is_dir(f, allowed) /\ IsPrefix(allowed, path)
    \/ \E allowed \in only_paths : IsPrefix(path, allowed)

(***************************************************************************)
(* gitignore_parsing.py                                                     *)
(***************************************************************************)
\* the lines kept: stripped, not blank, not starting with "#"
RECURSIVE KeptLines(_)
KeptLines(lines) ==
    IF lines = <<>> THEN <<>>
    ELSE IF Strip(Head(lines)) # <<>> /\ ~StartsWith(Head(lines), <<"#">>)
         THEN <<Strip(Head(lines))>> \o KeptLines(Tail(lines))
         ELSE KeptLines(Tail(lines))

\* open() raises for an existing .gitignore that cannot be read as text
ParseRaises(f, gitignore_path) ==
    exists(f, gitignore_path) /\ gitignore_path \in f.undecodable

_parse_gitignore(f, gitignore_path) ==
    IF ~exists(f, gitignore_path) THEN <<>> ELSE KeptLines(f.content[gitignore_path])

\* re.escape, then ** -> .*, * -> [^/]*, ? -> [^/], scanning left to right
RECURSIVE GlobToAtoms(_)
GlobToAtoms(pattern) ==
    IF pattern = <<>> THEN <<>>
    ELSE IF StartsWith(pattern, <<"*", "*">>)
         THEN <<AnyStar>> \o GlobToAtoms(SubSeq(pattern, 3, Len(pattern)))
    ELSE IF Head(pattern) = "*" THEN <<NotSlashStar>> \o GlobToAtoms(Tail(pattern))
    ELSE IF Head(pattern) = "?" THEN <<NotSlash>> \o GlobToAtoms(Tail(pattern))
    ELSE <<Lit(Head(pattern))>> \o GlobToAtoms(Tail(pattern))

\* the regex of one .gitignore line (one alternative), or None (NoRegex)
_convert_gitignore_to_regex(pattern) ==
    IF pattern \in {<<"*">>, <<"*", "*">>} THEN NoRegex
    ELSE LET is_dir_only == EndsWith(pattern, <<"/">>)
             p1 == IF is_dir_only THEN RStrip(pattern, {"/"}) ELSE pattern
             is_root_relative == StartsWith(p1, <<"/">>)
             p2 == IF is_root_relative THEN LStrip(p1, {"/"}) ELSE p1
             body == GlobToAtoms(p2)
         IN IF is_root_relative
            THEN IF is_dir_only THEN <<Bol>> \o body \o <<OptTail, Eol>>
                 ELSE <<Bol>> \o body \o <<Eol>>
            ELSE IF is_dir_only THEN <<BolOrSlash>> \o body \o <<OptTail, Eol>>
                 ELSE <<BolOrSlash>> \o body \o <<Eol>>

\* directory.glob("**/.gitignore"): every listed entry of that name
GitignoreFiles(f) ==
    {p \in DOMAIN f.kind : p # <<>> /\ p[Len(p)] = <<".", "g", "i", "t", "i", "g", "n", "o", "r", "e">>}

RECURSIVE AllPatterns(_, _)
AllPatterns(f, order) ==
    IF order = <<>> THEN <<>>
    ELSE _parse_gitignore(f, Head(order)) \o AllPatterns(f, Tail(order))

RECURSIVE RegexPatterns(_)
RegexPatterns(patterns) ==
    IF patterns = <<>> THEN <<>>
    ELSE LET regex == _convert_gitignore_to_regex(Head(patterns))
         IN IF regex = NoRegex THEN RegexPatterns(Tail(patterns))
            ELSE <<regex>> \o RegexPatterns(Tail(patterns))

\* the combined regex for the .gitignore files in the order glob found them
build_gitignore_regex(f, order) == RegexPatterns(AllPatterns(f, order))

\* f"{exclude_pattern or ''}|{gitignore_pattern}".strip("|")
CombineExclude(exclude_pattern, gitignore_pattern) ==
    (IF Truthy(exclude_pattern) THEN exclude_pattern ELSE <<>>) \o gitignore_pattern

(***************************************************************************)
(* The inputs generate_cattree is checked on: directory trees, file         *)
(* contents, and the arguments of the call                                  *)
(***************************************************************************)
MaxFileLines == 3    \* a file holds 0..MaxFileLines lines
MaxLinesArg == 3     \* max_lines is None or 1..MaxLinesArg

n_src == <<"s", "r", "c">>
n_dist == <<"d", "i", "s", "t">>
n_pycache == <<"_", "_", "p", "y", "c", "a", "c", "h", "e", "_", "_">>
n_gitignore == <<".", "g", "i", "t", "i", "g", "n", "o", "r", "e">>
n_a_py == <<"a", ".", "p", "y">>
n_A_py == <<"A", ".", "p", "y">>
n_b_py == <<"b", ".", "p", "y">>
n_B_py == <<"B", ".", "p", "y">>
n_c_py == <<"c", ".", "p", "y">>
n_d_py == <<"d", ".", "p", "y">>
n_x_py == <<"x", ".", "p", "y">>
n_a_png == <<"a", ".", "p", "n", "g">>

RootNames == {<<"p">>, <<".", "p">>}

Digits == <<"1", "2", "3", "4", "5", "6", "7", "8", "9">>

\* the k-th line of a source file, and a file of n lines
FileLine(k) == <<"l", " ", " ", Digits[k], "\n">>
FileOfLines(n) == [k \in 1..n |-> FileLine(k)]

\* a .gitignore line as the file holds it
GitLine(pattern) == pattern \o <<"\n">>

\* a tree from the kinds of its paths: every regular file holds one line
Tree(kinds) ==
    [kind |-> kinds,
     content |-> [q \in {x \in DOMAIN kinds : kinds[x] = "file"} |-> FileOfLines(1)],
     undecodable |-> {}]

KindsOf(dirs, files) ==
    [q \in dirs \cup files |-> IF q \in dirs THEN "dir" ELSE "file"]

\* the trees the filter runs start from: directories and files side by side,
\* names that differ in case only, a blacklisted directory, a file of a foreign
\* extension, and a root that is no directory
WalkKinds ==
    { KindsOf({<<>>, <<n_src>>, <<n_pycache>>},
              {<<n_src, n_a_py>>, <<n_src, n_A_py>>, <<n_src, n_b_py>>,
               <<n_a_py>>, <<n_B_py>>, <<n_a_png>>, <<n_pycache, n_c_py>>}),
      KindsOf({<<>>, <<n_src>>, <<n_src, n_dist>>},
              {<<n_src, n_a_py>>, <<n_src, n_b_py>>, <<n_src, n_dist, n_x_py>>,
               <<n_B_py>>, <<n_a_py>>}),
      KindsOf({<<>>, <<n_src>>, <<n_dist>>},
              {<<n_src, n_a_py>>, <<n_src, n_b_py>>, <<n_dist, n_d_py>>}),
      KindsOf({<<>>, <<n_src>>, <<n_src, n_pycache>>},
              {<<n_src, n_a_py>>, <<n_src, n_pycache, n_c_py>>, <<n_a_png>>}),
      KindsOf({<<>>, <<n_src>>}, {<<n_a_py>>, <<n_A_py>>}),
      KindsOf({<<>>}, {<<n_b_py>>}),
      KindsOf({}, {<<>>}) }

\* the tree without the path p and what is below it
Without(kinds, p) == [q \in {x \in DOMAIN kinds : ~IsPrefix(p, x)} |-> kinds[q]]

\* each of them whole, and with any one path below the root removed
WalkTrees ==
    {Tree(k) : k \in WalkKinds}
        \cup UNION {{Tree(Without(k, p)) : p \in DOMAIN k \ {<<>>}} : k \in WalkKinds}

\* --include-pattern: None, b\.py, \.py$, src|^\.$|b
WalkIncludes ==
    { None,
      << Lits(<<"b", ".", "p", "y">>) >>,
      << <<Lit("."), Lit("p"), Lit("y"), Eol>> >>,
      << Lits(n_src), <<Bol, Lit("."), Eol>>, <<Lit("b")>> >> }

\* --exclude-pattern: None, a\.py, ^src$
WalkExcludes ==
    { None,
      << Lits(<<"a", ".", "p", "y">>) >>,
      << <<Bol>> \o Lits(n_src) \o <<Eol>> >> }

\* --only
WalkOnlys ==
    { {}, {<<n_src, n_a_py>>}, {<<n_src>>}, {<<n_a_py>>, <<n_src, n_A_py>>} }

VARIABLES
    args,            \* the arguments of generate_cattree
    fs,              \* the filesystem under the root
    pc,              \* "call", "pop", "body", "push", "done", "raised"
    include_pattern, \* generate_cattree's locals
    exclude_pattern,
    only_paths_set,
    stack,           \* traverse_directory_dfs: the deque, its right end last
    entry,           \* the DirectoryEntry the generator has just yielded
    yielded,         \* every entry yielded so far, in order
    tree_structure,
    file_contents,
    rendered,        \* the paths whose tree line was appended, in order
    result,          \* the returned text, in its parts
    error,           \* the exception that left generate_cattree
    run,             \* "first" or "second" call on the same inputs
    prev_yielded     \* what the first call's walk yielded

vars == <<args, fs, pc, include_pattern, exclude_pattern, only_paths_set, stack,
          entry, yielded, tree_structure, file_contents, rendered, result, error,
          run, prev_yielded>>

NoEntry == [path |-> <<>>, depth |-> -1]
NoResult == [returned |-> FALSE]

\* the state in which a call starts
Fresh ==
    /\ pc = "call"
    /\ include_pattern = args.include_pattern
    /\ exclude_pattern = args.exclude_pattern
    /\ only_paths_set = {}
    /\ stack = <<>>
    /\ entry = NoEntry
    /\ yielded = <<>>
    /\ tree_structure = <<>>
    /\ file_contents = <<>>
    /\ rendered = <<>>
    /\ result = NoResult
    /\ error = "none"

\* filter runs: the tree, the root's name and the three filters vary
InitWalk ==
    /\ fs \in WalkTrees
    /\ \E d \in RootNames, inc \in WalkIncludes, exc \in WalkExcludes, only \in WalkOnlys :
         args = [directory |-> d, only_paths |-> only, include_pattern |-> inc,
                 exclude_pattern |-> exc, gitignore |-> FALSE,
                 max_lines |-> NoLimit, compact_code |-> FALSE]

\* the tree of the gitignore runs: dist at the root and below src, a
\* .gitignore at the root and possibly one in src (a file, or a dangling link)
GitKinds(srcGit) ==
    LET base == KindsOf({<<>>, <<n_dist>>, <<n_src>>, <<n_src, n_dist>>},
                        {<<n_dist, n_d_py>>, <<n_src, n_a_py>>,
                         <<n_src, n_dist, n_x_py>>, <<n_gitignore>>})
    IN IF srcGit = "absent" THEN base
       ELSE [q \in DOMAIN base \cup {<<n_src, n_gitignore>>} |->
                IF q \in DOMAIN base THEN base[q] ELSE srcGit]

\* the root .gitignore: /dist, dist/, /dist/, a comment and *.py, * and a.py, src/dist
GitRootLines ==
    { <<GitLine(<<"/">> \o n_dist)>>,
      <<GitLine(n_dist \o <<"/">>)>>,
      <<GitLine(<<"/">> \o n_dist \o <<"/">>)>>,
      <<GitLine(<<"#", " ", "x">>), <<"\n">>, GitLine(<<"*", ".", "p", "y">>)>>,
      <<GitLine(<<"*">>), GitLine(<<" ">> \o n_a_py)>>,
      <<GitLine(n_src \o <<"/">> \o n_dist)>> }

\* src/.gitignore, where it is a file: x.py
GitSrcLines == <<GitLine(n_x_py)>>

GitTree(srcGit, rootLines, bad) ==
    LET kinds == GitKinds(srcGit)
    IN [kind |-> kinds,
        content |-> [q \in {x \in DOMAIN kinds : kinds[x] = "file"} |->
                        IF q = <<n_gitignore>> THEN rootLines
                        ELSE IF q = <<n_src, n_gitignore>> THEN GitSrcLines
                        ELSE FileOfLines(1)],
        undecodable |-> bad]

\* gitignore runs: the .gitignore files, whether they can be read, and
\* --gitignore, --exclude-pattern and --only vary
InitGit ==
    /\ \E srcGit \in {"absent", "file", "broken"}, rootLines \in GitRootLines,
          bad \in {{}, {<<n_gitignore>>}, {<<n_src, n_gitignore>>}} :
         /\ bad \subseteq {q \in DOMAIN GitKinds(srcGit) : GitKinds(srcGit)[q] = "file"}
         /\ fs = GitTree(srcGit, rootLines, bad)
    /\ \E exc \in {None, << Lits(n_a_py) >>}, only \in {{}, {<<n_src, n_dist>>}},
          g \in BOOLEAN :
         args = [directory |-> <<"p">>, only_paths |-> only, include_pattern |-> None,
                 exclude_pattern |-> exc, gitignore |-> g,
                 max_lines |-> NoLimit, compact_code |-> FALSE]

\* the tree of the content runs: src/c.py, a.py, b.py in traversal order
ContentTree(na, nb, bad) ==
    [kind |-> KindsOf({<<>>, <<n_src>>}, {<<n_src, n_c_py>>, <<n_a_py>>, <<n_b_py>>}),
     content |-> [q \in {<<n_src, n_c_py>>, <<n_a_py>>, <<n_b_py>>} |->
                     IF q = <<n_a_py>> THEN FileOfLines(na)
                     ELSE IF q = <<n_b_py>> THEN FileOfLines(nb)
                     ELSE FileOfLines(2)],
     undecodable |-> bad]

\* content runs: the length of two files, the file that does not decode,
\* --max-lines and --compact-code vary
InitContent ==
    /\ \E na \in 0..MaxFileLines, nb \in 0..MaxFileLines,
          bad \in {{}, {<<n_src, n_c_py>>}, {<<n_a_py>>}, {<<n_b_py>>}} :
         fs = ContentTree(na, nb, bad)
    /\ \E m \in {NoLimit} \cup 1..MaxLinesArg, c \in BOOLEAN :
         args = [directory |-> <<"p">>, only_paths |-> {}, include_pattern |-> None,
                 exclude_pattern |-> None, gitignore |-> FALSE,
                 max_lines |-> m, compact_code |-> c]

Init ==
    /\ InitWalk \/ InitGit \/ InitContent
    /\ run = "first"
    /\ prev_yielded = <<>>
    /\ Fresh

(***************************************************************************)
(* generate_cattree, one action per step of the call                        *)
(***************************************************************************)
\* mutant of EffectiveInclude: --include-pattern is kept beside --only
EffectiveInclude_Kept(a) == a.include_pattern

\* lines 235-239: --only takes priority over --include-pattern
EffectiveInclude(a) == IF a.only_paths # {} THEN None ELSE a.include_pattern

\* one line of the tree: "    " * (depth - 1), the connector, the name
TreeLine(f, rootName, e) ==
    [indent |-> e.depth - 1,
     connector |-> IF is_dir(f, e.path) THEN "dir" ELSE "file",
     name |-> PathName(rootName, e.path)]

\* lines 234-248 and, at the loop's first step, 98-102
Begin ==
    /\ pc = "call"
    /\ only_paths_set' = args.only_paths
    /\ include_pattern' = EffectiveInclude(args)
    /\ \E order \in Perms(IF args.gitignore THEN GitignoreFiles(fs) ELSE {}) :
         IF \E i \in 1..Len(order) : ParseRaises(fs, order[i])
         THEN /\ pc' = "raised"
              /\ error' = "UnicodeDecodeError"
              /\ UNCHANGED <<exclude_pattern, stack, tree_structure, file_contents>>
         ELSE /\ exclude_pattern' =
                    IF args.gitignore
                    THEN CombineExclude(args.exclude_pattern, build_gitignore_regex(fs, order))
                    ELSE args.exclude_pattern
              /\ tree_structure' = <<args.directory>>
              /\ file_contents' = << <<>> >>
              /\ IF is_dir(fs, <<>>)
                 THEN /\ stack' = <<[path |-> <<>>, depth |-> 0]>>
                      /\ pc' = "pop"
                      /\ UNCHANGED error
                 ELSE /\ pc' = "raised"
                      /\ error' = "ValueError"
                      /\ UNCHANGED stack
    /\ UNCHANGED <<args, fs, entry, yielded, rendered, result, run, prev_yielded>>

\* mutant of Pop: a rejected directory is not yielded, and its children are
\* pushed all the same
Pop_NoPrune ==
    /\ pc = "pop"
    /\ stack # <<>>
    /\ LET top == stack[Len(stack)]
       IN /\ stack' = SubSeq(stack, 1, Len(stack) - 1)
          /\ IF _matches_pattern(fs, args.directory, top.path, include_pattern, exclude_pattern)
             THEN /\ yielded' = Append(yielded, top)
                  /\ entry' = top
                  /\ pc' = "body"
             ELSE /\ entry' = top
                  /\ pc' = "push"
                  /\ UNCHANGED yielded
    /\ UNCHANGED <<args, fs, include_pattern, exclude_pattern, only_paths_set,
                   tree_structure, file_contents, rendered, result, error, run,
                   prev_yielded>>

\* lines 103-112: pop one path; skip it, or yield it to the loop of generate_cattree
Pop ==
    /\ pc = "pop"
    /\ stack # <<>>
    /\ LET top == stack[Len(stack)]
       IN /\ stack' = SubSeq(stack, 1, Len(stack) - 1)
          /\ IF _matches_pattern(fs, args.directory, top.path, include_pattern, exclude_pattern)
             THEN /\ yielded' = Append(yielded, top)
                  /\ entry' = top
                  /\ pc' = "body"
             ELSE UNCHANGED <<yielded, entry, pc>>
    /\ UNCHANGED <<args, fs, include_pattern, exclude_pattern, only_paths_set,
                   tree_structure, file_contents, rendered, result, error, run,
                   prev_yielded>>

\* lines 255-280: the loop body of generate_cattree for the yielded entry
Body ==
    /\ pc = "body"
    /\ IF entry.depth = 0
          \/ (only_paths_set # {} /\ ~_is_path_allowed(fs, entry.path, only_paths_set))
       THEN /\ pc' = "push"
            /\ UNCHANGED <<tree_structure, file_contents, rendered, error>>
       ELSE /\ tree_structure' = Append(tree_structure, TreeLine(fs, args.directory, entry))
            /\ rendered' = Append(rendered, entry.path)
            /\ IF is_file(fs, entry.path)
               THEN LET r == format_file_content(fs, entry.path, args.max_lines,
                                                 args.compact_code)
                    IN IF r.raised
                       THEN /\ pc' = "raised"
                            /\ error' = r.value
                            /\ UNCHANGED file_contents
                       ELSE /\ file_contents' = Append(file_contents, r.value)
                            /\ pc' = "push"
                            /\ UNCHANGED error
               ELSE /\ file_contents' = Append(file_contents, <<>>)
                    /\ pc' = "push"
                    /\ UNCHANGED error
    /\ UNCHANGED <<args, fs, include_pattern, exclude_pattern, only_paths_set, stack,
                   entry, yielded, result, run, prev_yielded>>

\* lines 114-120: the generator resumes and pushes the children of a directory,
\* listed by the filesystem in any order
Push ==
    /\ pc = "push"
    /\ IF is_dir(fs, entry.path)
       THEN \E listing \in Perms(Children(fs, entry.path)) :
                stack' = PushEntries(stack, Sorted(fs, listing), entry.depth)
       ELSE UNCHANGED stack
    /\ pc' = "pop"
    /\ UNCHANGED <<args, fs, include_pattern, exclude_pattern, only_paths_set, entry,
                   yielded, tree_structure, file_contents, rendered, result, error,
                   run, prev_yielded>>

\* lines 282-286: the stack is empty, the text is joined and returned
Return ==
    /\ pc = "pop"
    /\ stack = <<>>
    /\ result' = [returned |-> TRUE,
                  tree |-> tree_structure,
                  contents |-> SelectSeq(file_contents, LAMBDA c : c # <<>>)]
    /\ pc' = "done"
    /\ UNCHANGED <<args, fs, include_pattern, exclude_pattern, only_paths_set, stack,
                   entry, yielded, tree_structure, file_contents, rendered, error,
                   run, prev_yielded>>

\* generate_cattree is called once more on the same tree with the same arguments
Again ==
    /\ pc = "done"
    /\ run = "first"
    /\ run' = "second"
    /\ prev_yielded' = yielded
    /\ pc' = "call"
    /\ include_pattern' = args.include_pattern
    /\ exclude_pattern' = args.exclude_pattern
    /\ only_paths_set' = {}
    /\ stack' = <<>>
    /\ entry' = NoEntry
    /\ yielded' = <<>>
    /\ tree_structure' = <<>>
    /\ file_contents' = <<>>
    /\ rendered' = <<>>
    /\ result' = NoResult
    /\ error' = "none"
    /\ UNCHANGED <<args, fs>>

Next == Begin \/ Pop \/ Body \/ Push \/ Return \/ Again

Spec == Init /\ [][Next]_vars

(***************************************************************************)
(* What the claims speak of                                                 *)
(***************************************************************************)
Root == <<>>
Paths == DOMAIN fs.kind
YieldedPaths == {yielded[i].path : i \in 1..Len(yielded)}
RenderedPaths == {rendered[i] : i \in 1..Len(rendered)}

\* the path and every directory above it, the root included
UpToRoot(p) == {SubSeq(p, 1, k) : k \in 0..Len(p)}

\* rules 1 and 2 of the filter, stated on the name
AllowedExtensions ==
    { <<".", "p", "y">>, <<".", "m", "d">>, <<".", "t", "x", "t">>,
      <<".", "y", "m", "l">>, <<".", "y", "a", "m", "l">>, <<".", "j", "s", "o", "n">>,
      <<".", "t", "o", "m", "l">>, <<".", "c", "p", "p">>, <<".", "h">>,
      <<".", "h", "p", "p">>, <<".", "c">> }

PassesBlacklist(p) ==
    LET name == PathName(args.directory, p)
    IN ~StartsWith(name, <<".">>) /\ ~StartsWith(name, n_pycache)

PassesExtension(p) ==
    is_file(fs, p) => \E x \in AllowedExtensions : EndsWith(PathName(args.directory, p), x)

\* the walk reaches p and rules 1 and 2 let it through: p and every directory
\* above it pass the blacklist and the extension rule
PassedBlacklistAndExtension(p) ==
    \A a \in UpToRoot(p) : PassesBlacklist(a) /\ PassesExtension(a)

\* rule 4 on the combined exclude pattern of the call
Excluded(p) ==
    /\ Truthy(exclude_pattern)
    /\ \/ re_search(exclude_pattern, PathName(args.directory, p))
       \/ re_search(exclude_pattern, RelativePath(p))

\* rule 3: in the set, below a directory of the set, or above a path of the set
OnlySelects(p) ==
    \/ p \in args.only_paths
    \/ \E a \in args.only_paths : a \in Paths /\ fs.kind[a] = "dir" /\ IsPrefix(a, p)
    \/ \E a \in args.only_paths : IsPrefix(p, a)

\* the filter of the running walk accepts p
Accepts(p) ==
    _matches_pattern(fs, args.directory, p, include_pattern, exclude_pattern)

\* p and every directory above it are accepted
AcceptedChain(p) == \A a \in UpToRoot(p) : Accepts(a)

Walking == pc \in {"pop", "body", "push", "done"}

(***************************************************************************)
(* C1                                                                       *)
(***************************************************************************)
\* C1 as stated: with onlyPaths non-empty, a candidate that passed the blacklist
\* and extension rules is in the output of generate iff the only-paths rule
\* selects it, whatever the exclude pattern is.
C1_OnlyPathsAloneDecides ==
    (pc = "done" /\ args.only_paths # {}) =>
        \A p \in Paths \ {Root} :
            PassedBlacklistAndExtension(p) => (p \in RenderedPaths <=> OnlySelects(p))

\* C1 amended: with onlyPaths non-empty the include rule is skipped and the
\* exclude rule is not: a path below the root is in the output of generate iff
\* the only-paths rule selects it and it and every directory above it, the root
\* included, pass the blacklist rule, the extension rule and the exclude rule.
C1_OnlyPathsAfterExclude ==
    (pc = "done" /\ args.only_paths # {}) =>
        \A p \in Paths \ {Root} :
            p \in RenderedPaths <=>
                /\ OnlySelects(p)
                /\ PassedBlacklistAndExtension(p)
                /\ \A a \in UpToRoot(p) : ~Excluded(a)

\* a finished call with --only, --include-pattern and an exclude pattern, in
\* which a selected path is excluded and another selected path is rendered
C1_Witness ==
    /\ pc = "done" /\ args.only_paths # {}
    /\ Truthy(args.include_pattern)
    /\ \E p \in Paths \ {Root} :
         /\ OnlySelects(p) /\ PassedBlacklistAndExtension(p)
         /\ Excluded(p) /\ p \notin RenderedPaths
    /\ \E q \in RenderedPaths : q \in args.only_paths

(***************************************************************************)
(* C2                                                                       *)
(***************************************************************************)
\* C2: with onlyPaths non-empty and no exclude pattern active, whatever the
\* include pattern is, generate renders exactly the paths the only-paths rule
\* selects among those the blacklist and extension rules let through (the path
\* and every directory above it pass them); with onlyPaths = {src/a.py} it
\* renders src and src/a.py and does not render src/b.py.
C2_OnlySupersedesInclude ==
    (pc = "done" /\ args.only_paths # {} /\ ~Truthy(exclude_pattern)) =>
        /\ RenderedPaths =
              {p \in Paths \ {Root} : OnlySelects(p) /\ PassedBlacklistAndExtension(p)}
        /\ (args.only_paths = {<<n_src, n_a_py>>} /\ <<n_src, n_a_py>> \in Paths
              /\ PassesBlacklist(Root))
             => /\ <<n_src>> \in RenderedPaths
                /\ <<n_src, n_a_py>> \in RenderedPaths
                /\ <<n_src, n_b_py>> \notin RenderedPaths

\* the example: --only src/a.py with an include pattern that matches b.py and
\* not src; src and src/a.py are rendered, the sibling src/b.py is not
C2_Witness ==
    /\ pc = "done"
    /\ args.only_paths = {<<n_src, n_a_py>>}
    /\ ~Truthy(exclude_pattern)
    /\ Truthy(args.include_pattern)
    /\ re_search(args.include_pattern, n_b_py)
    /\ ~re_search(args.include_pattern, n_src)
    /\ <<n_src, n_b_py>> \in Paths
    /\ {<<n_src>>, <<n_src, n_a_py>>} \subseteq RenderedPaths
    /\ <<n_src, n_b_py>> \notin RenderedPaths

(***************************************************************************)
(* C3                                                                       *)
(***************************************************************************)
\* C3: for a root that is a directory, whatever the filters and the root's name,
\* the walk yields the root first, at depth 0, and goes on to its children
\* (every child of the root that the filter accepts is yielded).
C3_RootAlwaysYielded ==
    (pc = "done" /\ is_dir(fs, Root)) =>
        /\ Len(yielded) >= 1
        /\ yielded[1] = [path |-> Root, depth |-> 0]
        /\ \A c \in Children(fs, Root) : Accepts(c) => c \in YieldedPaths

(***************************************************************************)
(* C4                                                                       *)
(***************************************************************************)
LowerName(p) == Lower(p[Len(p)])

\* sibling a may come before sibling b: no file before a directory, and within
\* directories and within files the lowered names ascend
SiblingsInOrder(a, b) ==
    /\ ~(is_file(fs, a) /\ is_dir(fs, b))
    /\ (is_file(fs, a) <=> is_file(fs, b)) => ~StrLess(LowerName(b), LowerName(a))

\* C4: the walk yields no path twice and, once it has ended, every accepted
\* path; yielded children of one directory have directories before files and
\* case-insensitively ascending names within each group; a yielded path comes
\* after its parent, at the parent's depth plus one, and nothing but paths
\* below that parent lies between the two (depth-first pre-order).
C4_WalkOrder ==
    /\ \A i, j \in 1..Len(yielded) : i < j =>
          /\ yielded[i].path # yielded[j].path
          /\ (yielded[i].path # Root /\ yielded[j].path # Root
               /\ Parent(yielded[i].path) = Parent(yielded[j].path))
              => SiblingsInOrder(yielded[i].path, yielded[j].path)
    /\ \A k \in 1..Len(yielded) :
          /\ yielded[k].depth = Len(yielded[k].path)
          /\ yielded[k].path # Root =>
                \E i \in 1..(k - 1) :
                    /\ yielded[i].path = Parent(yielded[k].path)
                    /\ \A j \in i..k : IsPrefix(yielded[i].path, yielded[j].path)
    /\ pc = "done" => \A p \in Paths : AcceptedChain(p) => p \in YieldedPaths

\* a finished walk that yielded a directory before a file of a smaller name, and
\* a file before a file whose name is smaller by code point (a.py before B.py),
\* and a path two levels down
C4_Witness ==
    /\ pc = "done"
    /\ \E i, j \in 1..Len(yielded) :
         /\ i < j /\ yielded[i].depth = 1 /\ yielded[j].depth = 1
         /\ is_dir(fs, yielded[i].path) /\ is_file(fs, yielded[j].path)
         /\ StrLess(LowerName(yielded[j].path), LowerName(yielded[i].path))
    /\ \E i, j \in 1..Len(yielded) :
         /\ i < j /\ yielded[i].depth = 1 /\ yielded[j].depth = 1
         /\ is_file(fs, yielded[i].path) /\ is_file(fs, yielded[j].path)
         /\ StrLess(yielded[j].path[1], yielded[i].path[1])
    /\ \E k \in 1..Len(yielded) : yielded[k].depth = 2

(***************************************************************************)
(* C5                                                                       *)
(***************************************************************************)
\* C5: two walks of the same tree with the same arguments yield the same
\* sequence of (path, depth), in whatever order the filesystem lists the
\* children of each directory in either walk.
C5_ListingOrderIndependent ==
    (run = "second" /\ pc = "done") => yielded = prev_yielded

(***************************************************************************)
(* C6                                                                       *)
(***************************************************************************)
\* C6: a directory the filter rejects is not yielded and neither is any path
\* below it; every yielded entry at depth d >= 1 has its parent yielded before
\* it at depth d - 1; a rejected file removes that file only (once the walk has
\* ended, its accepted siblings under a yielded parent are yielded).
C6_RejectPrunesSubtree ==
    /\ \A d \in Paths : (Walking /\ is_dir(fs, d) /\ ~Accepts(d)) =>
          \A k \in 1..Len(yielded) : ~IsPrefix(d, yielded[k].path)
    /\ \A k \in 1..Len(yielded) : yielded[k].depth >= 1 =>
          \E i \in 1..(k - 1) :
              yielded[i] = [path |-> Parent(yielded[k].path), depth |-> yielded[k].depth - 1]
    /\ pc = "done" =>
          \A x \in Paths : (is_file(fs, x) /\ ~Accepts(x) /\ Parent(x) \in YieldedPaths) =>
              /\ x \notin YieldedPaths
              /\ \A y \in Children(fs, Parent(x)) : Accepts(y) => y \in YieldedPaths

\* a finished walk that rejected a directory holding a path the filter would
\* accept, and rejected a file beside a yielded sibling
C6_Witness ==
    /\ pc = "done"
    /\ \E d \in Paths :
         /\ is_dir(fs, d) /\ d # Root /\ ~Accepts(d) /\ Parent(d) \in YieldedPaths
         /\ \E c \in Children(fs, d) : Accepts(c) /\ c \notin YieldedPaths
    /\ \E x \in Paths :
         /\ is_file(fs, x) /\ ~Accepts(x) /\ Parent(x) \in YieldedPaths
         /\ \E y \in Children(fs, Parent(x)) : is_file(fs, y) /\ y \in YieldedPaths

(***************************************************************************)
(* C7                                                                       *)
(***************************************************************************)
\* the block of a file of n lines under max_lines = m, as C7 states it
BlockAsClaimed(p) ==
    LET lines == fs.content[p]
        n == Len(lines)
        m == args.max_lines
        kept == SubSeq(lines, 1, Min(n, m))
        shown == IF args.compact_code
                 THEN [i \in 1..Len(kept) |-> CompactLine(kept[i])]
                 ELSE kept
    IN Concat(<<ContentHeader(p)>> \o shown \o (IF n > m THEN <<Ellipsis>> ELSE <<>>))

\* C7: for a file of n lines and max_lines = m >= 1 the content block holds the
\* first min(n, m) lines, followed by the ellipsis marker iff n > m.
C7_EllipsisIffTruncated ==
    \A i \in 1..Len(rendered) :
        (is_file(fs, rendered[i]) /\ args.max_lines # NoLimit /\ i + 1 <= Len(file_contents))
            => file_contents[i + 1] = BlockAsClaimed(rendered[i])

(***************************************************************************)
(* C8                                                                       *)
(***************************************************************************)
\* C8 as stated: a file that does not decode does not abort generate; the call
\* returns, and every accepted entry, before and after that file, is rendered.
C8_DecodeErrorIsolated ==
    (\E i \in 1..Len(rendered) : rendered[i] \in fs.undecodable) =>
        /\ pc # "raised"
        /\ pc = "done" =>
              /\ result.returned
              /\ \A p \in Paths \ {Root} : AcceptedChain(p) => p \in RenderedPaths

\* C8 amended: a file that cannot be decoded as text aborts generate: once its
\* tree line is appended the call raises ValueError, no content block is added
\* for it, nothing is returned, and no entry after it is rendered.
C8_DecodeErrorAborts ==
    /\ \A i \in 1..Len(rendered) : rendered[i] \in fs.undecodable =>
          /\ pc = "raised" /\ error = "ValueError"
          /\ result = NoResult
          /\ i = Len(rendered)
          /\ Len(file_contents) = Len(rendered)
    /\ pc = "done" => RenderedPaths \cap fs.undecodable = {}

\* the call has raised at an undecodable file with an entry rendered before it
\* and an accepted file not yet yielded after it
C8_Witness ==
    /\ pc = "raised" /\ error = "ValueError"
    /\ Len(rendered) >= 2
    /\ rendered[Len(rendered)] \in fs.undecodable
    /\ \E p \in Paths : is_file(fs, p) /\ AcceptedChain(p) /\ p \notin YieldedPaths

(***************************************************************************)
(* C9                                                                       *)
(***************************************************************************)
\* C9: with gitignore enabled and /dist the only .gitignore line under the root
\* (and no user exclude pattern), the filter rejects the root-level dist and
\* does not reject src/dist.
C9_RootAnchoredOnlyAtRoot ==
    ( /\ Walking /\ args.gitignore /\ ~Truthy(args.exclude_pattern)
      /\ <<n_gitignore>> \in Paths /\ fs.content[<<n_gitignore>>] = <<GitLine(<<"/">> \o n_dist)>>
      /\ ~is_file(fs, <<n_src, n_gitignore>>)
      /\ <<n_src, n_dist>> \in Paths /\ <<n_dist>> \in Paths )
    => /\ ~Accepts(<<n_dist>>)
       /\ Accepts(<<n_src, n_dist>>)

(***************************************************************************)
(* C10                                                                      *)
(***************************************************************************)
\* the alternatives the lines of the readable .gitignore files compile to
ReadablePatterns ==
    LET readable == {g \in GitignoreFiles(fs) : exists(fs, g) /\ g \notin fs.undecodable}
        lines == UNION {{KeptLines(fs.content[g])[i] : i \in 1..Len(KeptLines(fs.content[g]))}
                        : g \in readable}
    IN {_convert_gitignore_to_regex(l) : l \in lines} \ {NoRegex}

\* C10: with gitignore enabled, a .gitignore that is missing or unreadable is
\* skipped: the call does not fail over it, and the combined expression holds
\* the patterns of every other .gitignore file.
C10_GitignoreNeverFails ==
    args.gitignore =>
        /\ ~(pc = "raised" /\ error = "UnicodeDecodeError")
        /\ Walking =>
              {exclude_pattern[i] : i \in 1..Len(exclude_pattern)} =
                  ReadablePatterns \cup
                  (IF Truthy(args.exclude_pattern)
                   THEN {args.exclude_pattern[i] : i \in 1..Len(args.exclude_pattern)}
                   ELSE {})

====
